---- MODULE Spec2Model ----
(***************************************************************************)
(* Model of readthedocs/search/serializers.py: the serializers that shape  *)
(* Elasticsearch hits (projects, pages, and the sections / domains nested  *)
(* in a page) into the search API's result objects.                        *)
(*                                                                         *)
(* Python values are modelled as follows.                                  *)
(*   str that is parsed or rewritten : a sequence of one-character strings *)
(*   other str (slugs, ids, titles)  : a TLA+ string or character sequence *)
(*   list                            : a sequence                          *)
(*   namedtuple                      : a tuple, fields read by position    *)
(*   dict / attribute bag            : a function on the keys it holds     *)
(*   None                            : the tuple <<"None">>                *)
(***************************************************************************)
EXTENDS Integers, Sequences, FiniteSets, TLC

VARIABLES
    registry,   \* the Project table: slug -> project row, for the slugs that exist
    context,    \* the serializer context shared by one session (self.context)
    supplied,   \* the projects_data map the session was started with
    lookups,    \* per slug: how many times Project.objects.filter(slug=...) ran
    op,         \* the operation that ran last
    obj,        \* the hit it ran on
    result      \* what it returned

vars == <<registry, context, supplied, lookups, op, obj, result>>

None == <<"None">>

\* ----------------------------------------------------------------------
\* Python built-ins used by the module
\* ----------------------------------------------------------------------

\* getattr(obj, name, default) on an attribute bag.
getattr(o, name, default) == IF name \in DOMAIN o THEN o[name] ELSE default

\* Truth value of a list, str or None.
truthy(v) == v # <<>> /\ v # None

\* a or b
or(a, b) == IF truthy(a) THEN a ELSE b

\* a or b, for a list of hits (an empty group is falsy)
list_or(a, b) == IF a # <<>> THEN a ELSE b

\* dict.get(key, default)
dict_get(d, key, default) == IF key \in DOMAIN d THEN d[key] ELSE default

\* d[key] = value
dict_set(d, key, value) ==
    [k \in DOMAIN d \cup {key} |-> IF k = key THEN value ELSE d[k]]

EmptyDict == [k \in {} |-> None]

\* s[i:] and s[:i] with 1-based i
Drop(s, n) == SubSeq(s, n + 1, Len(s))
Take(s, n) == SubSeq(s, 1, n)

\* str.rstrip('/')
RECURSIVE rstrip_slash(_)
rstrip_slash(s) ==
    IF s # <<>> /\ s[Len(s)] = "/" THEN rstrip_slash(Take(s, Len(s) - 1)) ELSE s

\* str.lstrip('/')
RECURSIVE lstrip_slash(_)
lstrip_slash(s) ==
    IF s # <<>> /\ s[1] = "/" THEN lstrip_slash(Tail(s)) ELSE s

\* s.find(c, start): least index >= start holding a character of cs, 0 if none
\* (Python's -1).
find_from(s, cs, start) ==
    LET hits == {i \in start..Len(s) : s[i] \in cs}
    IN  IF hits = {} THEN 0 ELSE CHOOSE i \in hits : \A j \in hits : i <= j

\* s.rfind(c): greatest index holding c, 0 if none.
rfind(s, c) ==
    LET hits == {i \in 1..Len(s) : s[i] = c}
    IN  IF hits = {} THEN 0 ELSE CHOOSE i \in hits : \A j \in hits : j <= i

\* list(iterable)
list(v) == [i \in 1..Len(v) |-> v[i]]

\* reversed(list)
reversed(s) == [i \in 1..Len(s) |-> s[Len(s) + 1 - i]]

\* ----------------------------------------------------------------------
\* Highlights
\* ----------------------------------------------------------------------

\* get_raw_field with the two lookups swapped: the plain field preferred.
get_raw_field_plain_first(o, field, default) ==
    or(getattr(o, field, default), getattr(o, field \o ".raw", default))

\* A highlight object maps field names to lists of fragments.
get_raw_field(o, field, default) ==
    or(getattr(o, field \o ".raw", default), getattr(o, field, default))

\* source='meta.highlight', default=dict
meta_highlight(hit) == getattr(hit.meta, "highlight", EmptyDict)

ProjectHighlightSerializer(o) ==
    [ name        |-> list(get_raw_field(o, "name", <<>>)),
      slug        |-> list(get_raw_field(o, "slug", <<>>)),
      description |-> list(get_raw_field(o, "description", <<>>)) ]

PageHighlightSerializer(o) ==
    [ title |-> list(get_raw_field(o, "title", <<>>)) ]

DomainHighlightSerializer(o) ==
    [ name    |-> list(get_raw_field(o, "domains.name", <<>>)),
      content |-> list(get_raw_field(o, "domains.docstrings", <<>>)) ]

SectionHighlightSerializer(o) ==
    [ title   |-> list(get_raw_field(o, "sections.title", <<>>)),
      content |-> list(get_raw_field(o, "sections.content", <<>>)) ]

\* ----------------------------------------------------------------------
\* Leaf serializers
\* ----------------------------------------------------------------------

ProjectSearchSerializer(hit) ==
    [ type        |-> getattr(hit, "type", "project"),
      name        |-> hit.name,
      slug        |-> hit.slug,
      link        |-> hit.url,
      description |-> hit.description,
      highlights  |-> ProjectHighlightSerializer(meta_highlight(hit)) ]

DomainSearchSerializer(hit) ==
    [ type       |-> getattr(hit, "type", "domain"),
      role       |-> hit.role_name,
      name       |-> hit.name,
      id         |-> hit.anchor,
      content    |-> hit.docstrings,
      highlights |-> DomainHighlightSerializer(meta_highlight(hit)) ]

SectionSearchSerializer(hit) ==
    [ type       |-> getattr(hit, "type", "section"),
      id         |-> hit.id,
      title      |-> hit.title,
      content    |-> hit.content,
      highlights |-> SectionHighlightSerializer(meta_highlight(hit)) ]

\* ----------------------------------------------------------------------
\* PageSearchSerializer.get_blocks
\* ----------------------------------------------------------------------

\* attrgetter('meta.score')
score(hit) == hit.meta.score

\* Insertion of x into a list sorted by ascending score, after every entry
\* whose score is not greater: the stable step of list.sort.
insort(s, x) ==
    LET later == {i \in 1..Len(s) : score(s[i]) > score(x)}
        at    == IF later = {} THEN Len(s) + 1
                 ELSE CHOOSE i \in later : \A j \in later : i <= j
    IN  Take(s, at - 1) \o <<x>> \o Drop(s, at - 1)

RECURSIVE stable_sort(_)
stable_sort(s) ==
    IF s = <<>> THEN <<>>
    ELSE insort(stable_sort(Take(s, Len(s) - 1)), s[Len(s)])

\* sorted(...)[::-1] in place of reverse=True: equal keys come out reversed.
sorted_then_reversed(s) == reversed(stable_sort(s))

\* sorted(iterable, key=attrgetter('meta.score'), reverse=True): list.sort
\* with reverse=True reverses, sorts stably in ascending order and reverses
\* again, which keeps equal keys in their original order.
sorted_reverse(s) == reversed(stable_sort(reversed(s)))

\* for s in sections: s.type = 'section'
set_type(hits, t) == [i \in 1..Len(hits) |-> dict_set(hits[i], "type", t)]

\* serializers[hit.type](hit).data
serialize_block(hit) ==
    IF hit.type = "domain" THEN DomainSearchSerializer(hit)
    ELSE SectionSearchSerializer(hit)

get_blocks(o) ==
    LET inner_hits == o.meta.inner_hits
        sections   == set_type(list_or(inner_hits.sections, <<>>), "section")
        domains    == set_type(list_or(inner_hits.domains, <<>>), "domain")
        sorted_results == sorted_reverse(sections \o domains)
    IN  [i \in 1..Len(sorted_results) |-> serialize_block(sorted_results[i])]

\* ----------------------------------------------------------------------
\* urllib.parse.urlparse
\* ----------------------------------------------------------------------

Lower == <<"a","b","c","d","e","f","g","h","i","j","k","l","m",
           "n","o","p","q","r","s","t","u","v","w","x","y","z">>
Upper == <<"A","B","C","D","E","F","G","H","I","J","K","L","M",
           "N","O","P","Q","R","S","T","U","V","W","X","Y","Z">>
Digits == {"0","1","2","3","4","5","6","7","8","9"}

\* urllib.parse.scheme_chars
scheme_chars ==
    {Lower[i] : i \in 1..26} \cup {Upper[i] : i \in 1..26} \cup Digits
        \cup {"+", "-", "."}

\* str.lower()
lower(s) ==
    [i \in 1..Len(s) |->
        IF \E k \in 1..26 : Upper[k] = s[i]
        THEN Lower[CHOOSE k \in 1..26 : Upper[k] = s[i]]
        ELSE s[i]]

\* urlsplit's scheme step: url[:i].lower(), url[i+1:] when the text before
\* the first ':' is made of scheme characters.
split_scheme(url) ==
    LET i == find_from(url, {":"}, 1)
    IN  IF i > 1 /\ url[1] \notin Digits \cup {"+", "-", "."}
              /\ \A k \in 1..(i - 1) : url[k] \in scheme_chars
        THEN [scheme |-> lower(Take(url, i - 1)), rest |-> Drop(url, i)]
        ELSE [scheme |-> <<>>, rest |-> url]

\* _splitnetloc(url, 2) when url[:2] == '//': the netloc runs to the first of
\* '/', '?', '#'.
split_netloc(url) ==
    IF Len(url) >= 2 /\ url[1] = "/" /\ url[2] = "/"
    THEN LET delim == find_from(url, {"/", "?", "#"}, 3)
             stop  == IF delim = 0 THEN Len(url) + 1 ELSE delim
         IN  [netloc |-> SubSeq(url, 3, stop - 1), rest |-> Drop(url, stop - 1)]
    ELSE [netloc |-> <<>>, rest |-> url]

\* url.split(c, 1)[0] when c is in url, else url
before_first(url, c) ==
    LET i == find_from(url, {c}, 1)
    IN  IF i = 0 THEN url ELSE Take(url, i - 1)

\* _splitparams(url)[0]: cut at the first ';' of the last path segment
split_params(url) ==
    LET i == IF rfind(url, "/") > 0
             THEN find_from(url, {";"}, rfind(url, "/"))
             ELSE find_from(url, {";"}, 1)
    IN  IF i = 0 THEN url ELSE Take(url, i - 1)

\* The scheme, netloc and path of urlparse(url).  Every scheme met here
\* (http, https) is in uses_params.
urlparse(url) ==
    LET s == split_scheme(url)
        n == split_netloc(s.rest)
        nofrag  == before_first(n.rest, "#")
        noquery == before_first(nofrag, "?")
    IN  [scheme |-> s.scheme, netloc |-> n.netloc, path |-> split_params(noquery)]

\* ----------------------------------------------------------------------
\* Cached project data
\* ----------------------------------------------------------------------

\* namedtuple('ProjectData', ['version', 'alias'])
ProjectData(version, alias) == <<version, alias>>
pd_version(pd) == pd[1]
pd_alias(pd) == pd[2]

\* namedtuple('VersionData', ['slug', 'docs_url'])
VersionData(slug, docs_url) == <<slug, docs_url>>
vd_slug(vd) == vd[1]
vd_docs_url(vd) == vd[2]

\* Project.objects.filter(slug=slug): the rows with that slug (slugs are unique)
Project_filter(reg, slug) == IF slug \in DOMAIN reg THEN <<reg[slug]>> ELSE <<>>

\* project.get_docs_url(version_slug=...): the registry's URL for that version
get_docs_url(project, version_slug) == project.docs_urls[version_slug]

\* project.superprojects.values_list('alias', flat=True).first()
superproject_alias(project) ==
    IF project.superprojects = <<>> THEN None ELSE project.superprojects[1]

\* dict.get on the context
projects_data_of(ctx) == dict_get(ctx, "projects_data", EmptyDict)

\* The entry _get_project_data builds from a registry row.
fetched_entry(project, o) ==
    ProjectData(VersionData(o.version, get_docs_url(project, o.version)),
                superproject_alias(project))

\* _get_project_data without the write to projects_data.
_get_project_data_uncached(ctx, reg, o) ==
    IF o.project \in DOMAIN projects_data_of(ctx)
    THEN [ret |-> projects_data_of(ctx)[o.project], context |-> ctx, queries |-> 0]
    ELSE IF o.project \in DOMAIN reg
         THEN [ret |-> fetched_entry(reg[o.project], o), context |-> ctx, queries |-> 1]
         ELSE [ret |-> None, context |-> ctx, queries |-> 1]

\* _get_project_data that refreshes an entry cached for another version.
_get_project_data_refreshing(ctx, reg, o) ==
    IF /\ o.project \in DOMAIN projects_data_of(ctx)
       /\ \/ vd_slug(pd_version(projects_data_of(ctx)[o.project])) = o.version
          \/ o.project \notin DOMAIN reg
    THEN [ret |-> projects_data_of(ctx)[o.project], context |-> ctx, queries |-> 0]
    ELSE IF o.project \in DOMAIN reg
         THEN [ ret     |-> fetched_entry(reg[o.project], o),
                context |-> dict_set(ctx, "projects_data",
                                dict_set(projects_data_of(ctx), o.project,
                                         fetched_entry(reg[o.project], o))),
                queries |-> 1 ]
         ELSE [ret |-> None, context |-> ctx, queries |-> 1]

\* _get_project_data that also caches a miss, as an entry without alias or URL.
_get_project_data_negative(ctx, reg, o) ==
    IF o.project \in DOMAIN projects_data_of(ctx)
    THEN [ ret     |-> IF pd_version(projects_data_of(ctx)[o.project]) = None
                       THEN None ELSE projects_data_of(ctx)[o.project],
           context |-> ctx, queries |-> 0 ]
    ELSE IF o.project \in DOMAIN reg
         THEN [ ret     |-> fetched_entry(reg[o.project], o),
                context |-> dict_set(ctx, "projects_data",
                                dict_set(projects_data_of(ctx), o.project,
                                         fetched_entry(reg[o.project], o))),
                queries |-> 1 ]
         ELSE [ ret     |-> None,
                context |-> dict_set(ctx, "projects_data",
                                dict_set(projects_data_of(ctx), o.project,
                                         ProjectData(None, None))),
                queries |-> 1 ]

\* _get_project_data that asks the registry before the context.
_get_project_data_registry_first(ctx, reg, o) ==
    IF o.project \in DOMAIN reg
    THEN [ ret     |-> fetched_entry(reg[o.project], o),
           context |-> dict_set(ctx, "projects_data",
                           dict_set(projects_data_of(ctx), o.project,
                                    fetched_entry(reg[o.project], o))),
           queries |-> 1 ]
    ELSE [ ret     |-> dict_get(projects_data_of(ctx), o.project, None),
           context |-> ctx, queries |-> 1 ]

\* Every helper below threads the context and counts the registry queries it
\* made: [ret, context, queries].
_get_project_data(ctx, reg, o) ==
    LET project_data ==
            dict_get(dict_get(ctx, "projects_data", EmptyDict), o.project, None)
    IN  IF truthy(project_data)
        THEN [ret |-> project_data, context |-> ctx, queries |-> 0]
        ELSE
          LET qs == Project_filter(reg, o.project)
          IN  IF qs # <<>>
              THEN
                LET project       == qs[1]
                    docs_url      == get_docs_url(project, o.version)
                    project_alias == superproject_alias(project)
                    projects_data == dict_get(ctx, "projects_data", EmptyDict)
                    version_data  == VersionData(o.version, docs_url)
                    entry         == ProjectData(version_data, project_alias)
                IN  [ ret     |-> entry,
                      context |-> dict_set(ctx, "projects_data",
                                      dict_set(projects_data, o.project, entry)),
                      queries |-> 1 ]
              ELSE [ret |-> None, context |-> ctx, queries |-> 1]

get_project_alias(ctx, reg, o) ==
    LET r == _get_project_data(ctx, reg, o)
    IN  [r EXCEPT !.ret = IF truthy(r.ret) THEN pd_alias(r.ret) ELSE None]

\* ----------------------------------------------------------------------
\* Links
\* ----------------------------------------------------------------------

SPHINX_HTMLDIR == "sphinx_htmldir"
MKDOCS == "mkdocs"

\* 'index.html' as a pattern: '.' matches any character but a newline.
IndexHtml == <<"i", "n", "d", "e", "x", ".", "h", "t", "m", "l">>

\* 'index.html$' matches at position k: the ten characters, then the end of
\* the string or a final newline.
index_html_at(s, k) ==
    /\ k >= 1
    /\ k + 9 <= Len(s)
    /\ \A i \in 1..10 :
          IF IndexHtml[i] = "." THEN s[k + i - 1] # "\n"
          ELSE s[k + i - 1] = IndexHtml[i]
    /\ \/ k + 9 = Len(s)
       \/ k + 10 = Len(s) /\ s[Len(s)] = "\n"

\* re.sub('(^|/)index.html$', '/', path)
re_sub_index(path) ==
    LET starts == {k \in 1..Len(path) :
                     \/ k = 1 /\ index_html_at(path, 1)
                     \/ path[k] = "/" /\ index_html_at(path, k + 1)}
    IN  IF starts = {} THEN path
        ELSE LET k    == CHOOSE i \in starts : \A j \in starts : i <= j
                 last == IF k = 1 /\ index_html_at(path, 1) THEN k + 9 ELSE k + 10
             IN  Take(path, k - 1) \o <<"/">> \o Drop(path, last)

\* The path _get_full_path joins to the docs URL.
htmldir_path(o) ==
    IF o.doctype \in {SPHINX_HTMLDIR, MKDOCS}
    THEN re_sub_index(o.full_path)
    ELSE o.full_path

\* _get_full_path that joins onto an empty docs URL when there is no data.
_get_full_path_unguarded(ctx, reg, o) ==
    LET r == _get_project_data(ctx, reg, o)
        docs_url == IF truthy(r.ret) THEN vd_docs_url(pd_version(r.ret)) ELSE <<>>
    IN  [r EXCEPT !.ret =
            rstrip_slash(docs_url) \o <<"/">> \o lstrip_slash(htmldir_path(o))]

_get_full_path(ctx, reg, o) ==
    LET r == _get_project_data(ctx, reg, o)
    IN  IF truthy(r.ret)
        THEN LET docs_url == vd_docs_url(pd_version(r.ret))
                 path     == htmldir_path(o)
             IN  [r EXCEPT !.ret =
                     rstrip_slash(docs_url) \o <<"/">> \o lstrip_slash(path)]
        ELSE [r EXCEPT !.ret = None]

get_domain(ctx, reg, o) ==
    LET r == _get_full_path(ctx, reg, o)
    IN  IF truthy(r.ret)
        THEN LET parsed == urlparse(r.ret)
             IN  [r EXCEPT !.ret =
                     parsed.scheme \o <<":", "/", "/">> \o parsed.netloc]
        ELSE [r EXCEPT !.ret = None]

get_path(ctx, reg, o) ==
    LET r == _get_full_path(ctx, reg, o)
    IN  IF truthy(r.ret)
        THEN [r EXCEPT !.ret = urlparse(r.ret).path]
        ELSE [r EXCEPT !.ret = None]

\* PageSearchSerializer(obj, context).data: the declared fields in order.
PageSearchSerializer(ctx, reg, o) ==
    LET a == get_project_alias(ctx, reg, o)
        p == get_path(a.context, reg, o)
        d == get_domain(p.context, reg, o)
    IN  [ ret |-> [ type          |-> getattr(o, "type", "page"),
                    project       |-> o.project,
                    project_alias |-> a.ret,
                    version       |-> o.version,
                    title         |-> o.title,
                    path          |-> p.ret,
                    domain        |-> d.ret,
                    highlights    |-> PageHighlightSerializer(meta_highlight(o)),
                    blocks        |-> get_blocks(o) ],
          context |-> d.context,
          queries |-> a.queries + p.queries + d.queries ]

\* ----------------------------------------------------------------------
\* Bounds and inputs
\* ----------------------------------------------------------------------

MaxLookups == 3      \* registry queries counted per slug
MaxGroup == 2        \* inner hits per group
MaxScore == 3        \* scores are 1..MaxScore
MaxFragments == 2    \* fragments per highlighted field

Slugs == {"pip", "kong"}
V1 == <<"v", "1">>
V2 == <<"v", "2">>
Versions == {V1, V2}

HostA == <<"a", ".", "i", "o">>
HostB == <<"b", ".", "i", "o">>
HostS == <<"s", ".", "i", "o">>

\* A docs URL as the registry hands it out: https://<host>/en/<version>/
DocsUrl(host, version) ==
    <<"h", "t", "t", "p", "s", ":", "/", "/">> \o host \o <<"/", "e", "n", "/">> \o version \o <<"/">>

\* The rows the Project table may hold for a slug: a project of its own, or
\* one that moved to another host and became a subproject twice over.
Row(host, superprojects) ==
    [ docs_urls     |-> [v \in Versions |-> DocsUrl(host, v)],
      superprojects |-> superprojects ]

Rows == { Row(HostA, <<>>), Row(HostB, <<"sub", "alt">>) }

Registries == UNION { [D -> Rows] : D \in SUBSET Slugs }

\* The maps a caller may pass in as context['projects_data'].
SuppliedEntry == ProjectData(VersionData(V1, DocsUrl(HostS, V1)), "pre")
SuppliedMaps == UNION { [D -> {SuppliedEntry}] : D \in SUBSET Slugs }
Contexts == {EmptyDict} \cup { [k \in {"projects_data"} |-> m] : m \in SuppliedMaps }

\* Inner hits.  Ids are <<"s", i>> and <<"d", i>>, i the position in the group.
SectionHit(i, meta) ==
    [ id |-> <<"s", i>>, title |-> "Usage", content |-> "text", meta |-> meta ]

DomainHit(i, meta) ==
    [ role_name |-> "py:class", name |-> "Reader", anchor |-> <<"d", i>>,
      docstrings |-> "doc", meta |-> meta ]

SectionGroups ==
    UNION { { [i \in 1..n |-> SectionHit(i, [score |-> f[i]])] : f \in [1..n -> 1..MaxScore] } :
            n \in 0..MaxGroup }

DomainGroups ==
    UNION { { [i \in 1..n |-> DomainHit(i, [score |-> f[i]])] : f \in [1..n -> 1..MaxScore] } :
            n \in 0..MaxGroup }

GuideIndex == <<"g", "u", "i", "d", "e", "/", "i", "n", "d", "e", "x", ".", "h", "t", "m", "l">>

PageHit(project, version, doctype, full_path, meta) ==
    [ project |-> project, version |-> version, title |-> "Guide",
      doctype |-> doctype, full_path |-> full_path, meta |-> meta ]

\* The metas of the page hits of a session: nothing matched inside the page,
\* or a title highlight with a section and a domain of equal score.
PlainMeta == [ inner_hits |-> [sections |-> <<>>, domains |-> <<>>] ]
RichMeta ==
    [ highlight  |-> [k \in {"title", "title.raw"} |->
                        IF k = "title" THEN <<"<em>Guide</em>">> ELSE <<"<em>guide</em>">>],
      inner_hits |->
        [ sections |-> <<SectionHit(1, [ score     |-> 2,
                                       highlight |-> [k \in {"sections.title"} |->
                                                        <<"<em>Usage</em>">>] ])>>,
          domains  |-> <<DomainHit(1, [score |-> 2])>> ] ]

\* The page hits of a session: pip is built with an htmldir builder and its
\* pages match inside, kong is plain Sphinx and matches by title alone.
PageHits ==
    { PageHit("pip", v, SPHINX_HTMLDIR, GuideIndex, RichMeta) : v \in Versions }
    \cup { PageHit("kong", v, "sphinx", GuideIndex, PlainMeta) : v \in Versions }

Bump(f, k, n) == [f EXCEPT ![k] = @ + n]

\* ----------------------------------------------------------------------
\* A session: page hits shaped against one shared context, while the
\* Project table may change underneath.
\* ----------------------------------------------------------------------

Init ==
    /\ registry \in Registries
    /\ context \in Contexts
    /\ supplied = dict_get(context, "projects_data", EmptyDict)
    /\ lookups = [s \in Slugs |-> 0]
    /\ op = "init"
    /\ obj = None
    /\ result = None

\* One call of _get_project_data (the resolve operation).
Resolve(o) ==
    \E r \in {_get_project_data(context, registry, o)} :
        /\ lookups[o.project] + r.queries <= MaxLookups
        /\ context' = r.context
        /\ lookups' = Bump(lookups, o.project, r.queries)
        /\ op' = "resolve"
        /\ obj' = o
        /\ result' = r.ret
        /\ UNCHANGED <<registry, supplied>>

\* Serializing one page hit: every field of PageSearchSerializer.
ShapePage(o) ==
    \E r \in {PageSearchSerializer(context, registry, o)} :
        /\ lookups[o.project] + r.queries <= MaxLookups
        /\ context' = r.context
        /\ lookups' = Bump(lookups, o.project, r.queries)
        /\ op' = "page"
        /\ obj' = o
        /\ result' = r.ret
        /\ UNCHANGED <<registry, supplied>>

\* The Project table changes: a project appears, disappears or is edited.
RegistryUpdate ==
    /\ registry' \in Registries
    /\ \E s \in Slugs :
          /\ Project_filter(registry', s) # Project_filter(registry, s)
          /\ \A t \in Slugs \ {s} :
                Project_filter(registry', t) = Project_filter(registry, t)
    /\ op' = "registry"
    /\ obj' = None
    /\ result' = None
    /\ UNCHANGED <<context, supplied, lookups>>

Next ==
    \/ \E o \in PageHits : Resolve(o)
    \/ \E o \in PageHits : ShapePage(o)
    \/ RegistryUpdate

Spec == Init /\ [][Next]_vars

\* ----------------------------------------------------------------------
\* get_blocks on its own: every pair of inner-hit groups within the bounds
\* ----------------------------------------------------------------------

BlockHits ==
    { PageHit("pip", V1, "sphinx", GuideIndex,
              [inner_hits |-> [sections |-> ss, domains |-> ds]]) :
      ss \in SectionGroups, ds \in DomainGroups }

Idle ==
    /\ registry = EmptyDict
    /\ context = EmptyDict
    /\ supplied = EmptyDict
    /\ lookups = [s \in Slugs |-> 0]
    /\ result = None

InitBlocks ==
    /\ Idle
    /\ op = "input"
    /\ obj \in BlockHits

GetBlocks ==
    /\ op = "input"
    /\ op' = "get_blocks"
    /\ result' = get_blocks(obj)
    /\ UNCHANGED <<registry, context, supplied, lookups, obj>>

NextBlocks == GetBlocks

SpecBlocks == InitBlocks /\ [][NextBlocks]_vars

\* ----------------------------------------------------------------------
\* Highlights on their own: a project hit and one of its highlighted fields
\* ----------------------------------------------------------------------

Fragments == {"Foo", "Foo Exact"}
FragmentLists == UNION { [1..n -> Fragments] : n \in 0..MaxFragments }
HighlightFields == {"name", "slug", "description"}

\* Highlight objects that hold the field, its raw sibling, both or neither.
HighlightObjects(f) ==
    UNION { [D -> FragmentLists] : D \in SUBSET {f, f \o ".raw"} }

ProjectHit(meta) ==
    [ name |-> "Pip", slug |-> "pip", url |-> "https://pip.io/",
      description |-> "installer", meta |-> meta ]

FieldInputs ==
    UNION { { [hit |-> ProjectHit([score |-> 1, highlight |-> hl]), field |-> f] :
              hl \in HighlightObjects(f) } \cup
            { [hit |-> ProjectHit([score |-> 1]), field |-> f] } :
            f \in HighlightFields }

InitField ==
    /\ Idle
    /\ op = "input"
    /\ obj \in FieldInputs

\* list(get_raw_field(obj, field, [])), as every get_<field> method calls it
ReadField ==
    /\ op = "input"
    /\ op' = "read_field"
    /\ result' = list(get_raw_field(meta_highlight(obj.hit), obj.field, <<>>))
    /\ UNCHANGED <<registry, context, supplied, lookups, obj>>

ShapeProject ==
    /\ op = "input"
    /\ op' = "project"
    /\ result' = ProjectSearchSerializer(obj.hit)
    /\ UNCHANGED <<registry, context, supplied, lookups, obj>>

NextField == ReadField \/ ShapeProject

SpecField == InitField /\ [][NextField]_vars

\* ----------------------------------------------------------------------
\* Links on their own: a page hit of a project whose data is in the context
\* ----------------------------------------------------------------------

LinkDocsUrls ==
    { <<"h", "t", "t", "p", "s", ":", "/", "/", "a", ".", "i", "o", "/", "e", "n", "/", "v", "1", "/">>,
      <<"h", "t", "t", "p", ":", "/", "/", "a", ".", "i", "o", "/", "e", "n", "/", "v", "1">>,
      <<"h", "t", "t", "p", "s", ":", "/", "/", "a", ".", "i", "o", "/">>,
      <<"h", "t", "t", "p", "s", ":", "/", "/", "a", ".", "i", "o">> }

PathPrefixes ==
    { <<>>,
      <<"/">>,
      <<"g", "u", "i", "d", "e", "/">>,
      <<"m", "y">>,
      <<"a", ";", "b", "/">> }

PathLasts ==
    { <<"i", "n", "d", "e", "x", ".", "h", "t", "m", "l">>,
      <<"i", "n", "d", "e", "x", "_", "h", "t", "m", "l">>,
      <<"i", "n", "d", "e", "x", ".", "h", "t", "m">>,
      <<"u", "s", "a", "g", "e", ".", "h", "t", "m", "l">>,
      <<>> }

PathSuffixes ==
    { <<>>,
      <<"l">>,
      <<"?", "q">>,
      <<"#", "t", "o", "p">>,
      <<";", "v", "=", "2">> }

LinkPaths ==
    { pre \o last \o suf : pre \in PathPrefixes, last \in PathLasts, suf \in PathSuffixes }

Doctypes == {"sphinx", SPHINX_HTMLDIR, MKDOCS}

LinkHits ==
    { PageHit("pip", V1, dt, path, PlainMeta) : dt \in Doctypes, path \in LinkPaths }

InitLink ==
    /\ registry = EmptyDict
    /\ \E d \in LinkDocsUrls :
          context = [k \in {"projects_data"} |->
                       [s \in {"pip"} |-> ProjectData(VersionData(V1, d), None)]]
    /\ supplied = context["projects_data"]
    /\ lookups = [s \in Slugs |-> 0]
    /\ result = None
    /\ op = "input"
    /\ obj \in LinkHits

\* The link of a page hit: the joined URL, and the domain and path fields.
ResolveLink ==
    /\ op = "input"
    /\ op' = "link"
    /\ \E f \in {_get_full_path(context, registry, obj)} :
       \E d \in {get_domain(f.context, registry, obj)} :
       \E p \in {get_path(d.context, registry, obj)} :
          /\ result' = [ joined    |-> htmldir_path(obj),
                         full_path |-> f.ret,
                         domain    |-> d.ret,
                         path      |-> p.ret ]
          /\ context' = p.context
          /\ lookups' = Bump(lookups, obj.project, f.queries + d.queries + p.queries)
    /\ UNCHANGED <<registry, supplied, obj>>

NextLink == ResolveLink

SpecLink == InitLink /\ [][NextLink]_vars

\* ----------------------------------------------------------------------
\* Properties of get_blocks (SpecBlocks)
\* ----------------------------------------------------------------------

\* The hits get_blocks merges, sections first, and where each came from.
MergeInput == obj.meta.inner_hits.sections \o obj.meta.inner_hits.domains
InputType(i) == IF i <= Len(obj.meta.inner_hits.sections) THEN "section" ELSE "domain"
InputId(i) == IF InputType(i) = "section" THEN MergeInput[i].id ELSE MergeInput[i].anchor
BlockOf(i) == CHOOSE j \in 1..Len(result) : result[j].id = InputId(i)

FieldHighlight == getattr(obj.hit.meta, "highlight", EmptyDict)
RawName == obj.field \o ".raw"
HasRaw == RawName \in DOMAIN FieldHighlight
HasPlain == obj.field \in DOMAIN FieldHighlight

\* What the field reads as, in the read of one field and in the project's
\* highlights.
FieldRead == IF op = "read_field" THEN result ELSE result.highlights[obj.field]

\* C4 as stated: a raw entry that is present wins even when it is empty.
C4_Original ==
    op \in {"read_field", "project"} =>
        FieldRead = IF HasRaw THEN FieldHighlight[RawName]
                    ELSE IF HasPlain THEN FieldHighlight[obj.field]
                    ELSE <<>>

\* C4 (amended): a raw entry that is present and not empty is the result;
\* otherwise the plain entry when present; otherwise the empty list.
C4_RawUnlessEmpty ==
    op \in {"read_field", "project"} =>
        FieldRead = IF HasRaw /\ FieldHighlight[RawName] # <<>> THEN FieldHighlight[RawName]
                    ELSE IF HasPlain THEN FieldHighlight[obj.field]
                    ELSE <<>>

\* {name: ["Foo"], "name.raw": ["Foo Exact"]} reads as ["Foo Exact"].
C4_Witness ==
    /\ op = "read_field"
    /\ HasRaw /\ HasPlain
    /\ FieldHighlight[RawName] = <<"Foo Exact">>
    /\ FieldHighlight[obj.field] = <<"Foo">>
    /\ result = <<"Foo Exact">>

\* ----------------------------------------------------------------------
\* Properties of links (SpecLink)
\* ----------------------------------------------------------------------

IndexHtmlName == <<"i", "n", "d", "e", "x", ".", "h", "t", "m", "l">>

\* The path's last segment is exactly 'index.html'.
EndsWithIndexHtml(path) ==
    \/ path = IndexHtmlName
    \/ /\ Len(path) > 10
       /\ SubSeq(path, Len(path) - 10, Len(path)) = <<"/">> \o IndexHtmlName

Count(s, c) == Cardinality({i \in 1..Len(s) : s[i] = c})

\* C6 as stated: domain is scheme://host without a trailing slash or a path,
\* path begins with '/', and domain + path is the full URL.
C6_Original ==
    op = "link" =>
        /\ Count(result.domain, "/") = 2
        /\ result.path # <<>> /\ result.path[1] = "/"
        /\ result.domain \o result.path = result.full_path

\* ----------------------------------------------------------------------
\* Properties of a session (Spec)
\* ----------------------------------------------------------------------

Cached(s) == s \in DOMAIN projects_data_of(context)
CachedNext(s) == s \in DOMAIN projects_data_of(context')
InRegistry(s) == s \in DOMAIN registry

\* C1 as stated: no slug is ever looked up in the registry more than once.
C1_Original == \A s \in Slugs : lookups[s] <= 1

\* C1 (amended): no operation looks up a slug that is cached; an operation
\* (even a whole page, which resolves three times) looks up a slug that the
\* registry holds at most once, and that lookup caches it.  Only a slug the
\* registry does not hold is looked up again and again.
C1_OneLookupWhenFound ==
    [][\A s \in Slugs :
          /\ Cached(s) => lookups'[s] = lookups[s]
          /\ InRegistry(s) => lookups'[s] <= lookups[s] + 1
          /\ (InRegistry(s) /\ lookups'[s] > lookups[s]) => CachedNext(s)]_vars

\* A page of a project that was not supplied has been shaped, its three
\* resolves cost one lookup, and the slug is cached.
C1_Witness ==
    /\ op = "page"
    /\ obj.project \notin DOMAIN supplied
    /\ Cached(obj.project)
    /\ lookups[obj.project] = 1
    /\ result.path # None

\* The page fields that do not depend on the project's data.
OwnFields(data) ==
    <<data.type, data.project, data.version, data.title, data.highlights, data.blocks>>

\* C3: shaping a page whose project is neither cached nor in the registry
\* gives path, domain and project_alias None, the other fields as for a
\* project that resolves, and changes no other hit's result.
C3_UnresolvedPage ==
    [][(op' = "page" /\ ~Cached(obj'.project) /\ ~InRegistry(obj'.project)) =>
          /\ result'.path = None
          /\ result'.domain = None
          /\ result'.project_alias = None
          /\ result'.project = obj'.project /\ result'.version = obj'.version
          /\ result'.title = obj'.title /\ result'.type = "page"
          /\ \A row \in Rows :
                LET resolved ==
                        PageSearchSerializer(context,
                            dict_set(registry, obj'.project, row), obj').ret
                IN  /\ resolved.path # None
                    /\ OwnFields(resolved) = OwnFields(result')
          /\ \A o \in PageHits :
                PageSearchSerializer(context', registry', o).ret
                    = PageSearchSerializer(context, registry, o).ret]_vars

\* An unresolved page with blocks and highlights, while another project of
\* the session is cached.
C3_Witness ==
    /\ op = "page"
    /\ ~Cached(obj.project) /\ ~InRegistry(obj.project)
    /\ result.path = None /\ result.domain = None /\ result.project_alias = None
    /\ Len(result.blocks) = 2
    /\ result.highlights.title # <<>>
    /\ \E s \in Slugs : Cached(s)

\* C7: an entry of projects_data is never overwritten or removed, and every
\* resolve of its slug returns it.
C7_FirstEntryWins ==
    [][\A s \in Slugs : Cached(s) =>
          /\ CachedNext(s)
          /\ projects_data_of(context')[s] = projects_data_of(context)[s]
          /\ (op' = "resolve" /\ obj'.project = s)
                => result' = projects_data_of(context)[s]
          /\ (op' = "page" /\ obj'.project = s)
                => result'.project_alias = pd_alias(projects_data_of(context)[s])]_vars

\* A resolve answered from the cache although the hit names another version
\* and the registry now holds other data for the project.
C7_Witness ==
    /\ op = "resolve"
    /\ Cached(obj.project) /\ InRegistry(obj.project)
    /\ result = projects_data_of(context)[obj.project]
    /\ vd_slug(pd_version(result)) # obj.version
    /\ result # fetched_entry(registry[obj.project], obj)
    /\ vd_docs_url(pd_version(result))
          # get_docs_url(registry[obj.project], vd_slug(pd_version(result)))

\* C8: a resolve that finds the slug neither cached nor in the registry
\* returns None after one lookup and leaves the context as it was; a resolve
\* of an uncached slug the registry holds returns its data after one lookup
\* and caches it.
C8_AbsenceNotCached ==
    [][(op' = "resolve" /\ ~Cached(obj'.project)) =>
          /\ lookups'[obj'.project] = lookups[obj'.project] + 1
          /\ ~InRegistry(obj'.project) => (result' = None /\ context' = context)
          /\ InRegistry(obj'.project) =>
                /\ result' = fetched_entry(registry[obj'.project], obj')
                /\ CachedNext(obj'.project)
                /\ projects_data_of(context')[obj'.project] = result']_vars

\* A resolve that found the project on the second lookup of its slug: the
\* first one missed.
C8_Witness ==
    /\ op = "resolve"
    /\ lookups[obj.project] = 2
    /\ Cached(obj.project) /\ obj.project \notin DOMAIN supplied
    /\ result = fetched_entry(registry[obj.project], obj)

\* The URL _get_full_path builds on a docs URL.
JoinedUrl(docs_url, o) ==
    rstrip_slash(docs_url) \o <<"/">> \o lstrip_slash(htmldir_path(o))

\* C9: shaping a page whose slug is in the supplied map makes no lookup,
\* leaves the context unchanged and builds alias, domain and path from the
\* supplied entry, whatever the registry holds.
C9_SuppliedEntryUsed ==
    [][(op' = "page" /\ obj'.project \in DOMAIN supplied) =>
          /\ lookups' = lookups
          /\ context' = context
          /\ result'.project_alias = pd_alias(supplied[obj'.project])
          /\ result'.domain \o result'.path
                = JoinedUrl(vd_docs_url(pd_version(supplied[obj'.project])), obj')]_vars

\* A supplied page shaped while the registry holds the project, with another
\* URL, and the hit names a version the supplied entry does not.
C9_Witness ==
    /\ op = "page"
    /\ obj.project \in DOMAIN supplied
    /\ InRegistry(obj.project)
    /\ obj.version # vd_slug(pd_version(supplied[obj.project]))
    /\ result.project_alias = "pre"
    /\ result.domain = <<"h", "t", "t", "p", "s", ":", "/", "/", "s", ".", "i", "o">>

\* C10 as stated: the data a resolve returns is that of the hit's own version,
\* here for the projects whose entry the session itself fetched.
C10_Original ==
    (op = "resolve" /\ result # None /\ obj.project \notin DOMAIN supplied)
        => vd_slug(pd_version(result)) = obj.version

====
